---------------------------- MODULE Spec2Model ----------------------------
(***************************************************************************)
(* Model of the transcribe CLI (src/src/lib/processor.ts, src/src/index.ts) *)
(*                                                                         *)
(* Each component is modelled with its own specification:                  *)
(*   SpecKM   - identifyKeyMoments: validation/snapping of the AI          *)
(*              candidates, the heuristic fallback, the final sort/slice.  *)
(*   SpecNarr - the sequential frame analysis loop of the CLI action and   *)
(*              summarizeFrame.                                            *)
(*   SpecSum  - summarizeWithOllama: sentence chunking, map calls, reduce. *)
(*   SpecCtx  - getRelevantTranscriptForFrame.                             *)
(*   SpecTr   - parseVTT and transcribeAudio.                              *)
(*   SpecFr   - identifyKeyMoments followed by extractFramesAtTimestamps.  *)
(*   SpecSnap - one iteration of the validation loop, with its candidate.  *)
(*   SpecRs   - the lengths of the reasons of the key moments.             *)
(*   SpecCli  - the CLI action: its calls and what a failure of each does. *)
(*   SpecPr   - the parsing of the AI response in identifyKeyMoments.      *)
(*                                                                         *)
(* Time is counted in ticks of half a second, so that candidates can lie   *)
(* strictly within one second of a segment start without being equal to it.*)
(* Text is a sequence of characters over a three-letter alphabet: a word   *)
(* character, a blank and a sentence terminator.                           *)
(***************************************************************************)
EXTENDS Integers, Sequences, FiniteSets, TLC

VARIABLES
    \* ---- identifyKeyMoments ----
    segments,                 \* TranscriptSegment[] argument
    maxFrames,                \* maxFrames argument
    kmPc,                     \* "call" | "validate" | "done" | "threw"
    validKeyMoments,          \* the array built by the validation loop
    nCands,                   \* parsed candidates consumed by the loop so far
    kmResult,                 \* the returned KeyMoment[]
    usedFallback,             \* the branch of line 469 was taken
    kmSeen,                   \* how the loop disposed of the candidates so far
    \* ---- frame analysis loop ----
    nFrames,                  \* frameInfos.length
    nextFrame,                \* next frame of the for..of loop
    inFlight,                 \* frames whose summarizeFrame call is pending
    previousFrameDescription, \* loop-carried context
    frameSummaries,           \* the narration list
    promptContext,            \* per started call: the context put in its prompt
    outcomes,                 \* per completed call: how it ended
    narrPc,                   \* "loop" | "done"
    \* ---- summarizeWithOllama ----
    transcript,               \* the transcript argument
    chunks,                   \* chunks[] after the chunking step
    mappedChunks,             \* results of the map calls, in push order
    calls,                    \* log of external generate calls (start/end)
    sumPc,                    \* position in summarizeWithOllama
    \* ---- getRelevantTranscriptForFrame ----
    ctxSegments,              \* segments argument
    frameTimestamp,           \* frameTimestamp argument
    contextSeconds,           \* contextSeconds argument
    ctxResult,                \* the returned string
    ctxPc,                    \* "call" | "done"
    \* ---- parseVTT / transcribeAudio ----
    trSource,                 \* "vtt" | "whisper"
    vttContent,               \* the subtitle file, line by line
    whisperOutput,            \* the segments of whisper's JSON output
    trSegments,               \* segments of the returned transcript
    fullText,                 \* fullText of the returned transcript
    trPc,                     \* "call" | "done"
    \* ---- identifyKeyMoments followed by extractFramesAtTimestamps ----
    frSegments,               \* transcript segments given to identifyKeyMoments
    frMaxFrames,              \* maxFrames given to identifyKeyMoments
    keyMoments,               \* what identifyKeyMoments returned
    videoDuration,            \* parseFloat of ffprobe's output
    validMoments,             \* keyMoments.filter(m => m.timestamp < videoDuration)
    frI,                      \* loop index i of the extraction loop
    frameInfos,               \* frameInfos[] of extractFramesAtTimestamps
    frPc,                     \* "identify" | "probe" | "extract" | "done"
    \* ---- one iteration of the validation loop of identifyKeyMoments ----
    snapSegments,             \* the transcript segments
    snapValid,                \* validKeyMoments before the iteration
    snapMoment,               \* the candidate of the iteration
    snapAfter,                \* validKeyMoments after the iteration
    snapPc,                   \* "loop" | "done"
    \* ---- the reason of one key moment ----
    rsTextLen,                \* length of the AI's reason or of the segment text
    rsPath,                   \* which statement built the reason
    rsReasonLen,              \* length of the reason of the moment pushed
    rsPc,                     \* "build" | "pushed" | "dropped"
    \* ---- the CLI action ----
    cliFiles,                 \* which input files were given
    cliOptions,               \* audioOnly, transcribeOnly, analyzeFrames
    cliPc,                    \* position in the action
    cliCalls,                 \* log of the calls made and how each ended
    cliFrameInfos,            \* frameInfos.length
    cliNarrated,              \* frames the narration loop has gone through
    cliSummaryInOutput,       \* finalOutput has a summary section
    cliOutputWritten,          \* the transcript output file was written
    \* ---- parsing of the AI key-moment response ----
    prForm,                   \* "json" when responseText starts with '['
    prEntries,                \* the entries of the response
    prKeyMoments,             \* keyMoments after the parsing step
    prPc                      \* "parse" | "done"

kmVars   == <<segments, maxFrames, kmPc, validKeyMoments, nCands, kmResult,
              usedFallback, kmSeen>>
narrVars == <<nFrames, nextFrame, inFlight, previousFrameDescription,
              frameSummaries, promptContext, outcomes, narrPc>>
sumVars  == <<transcript, chunks, mappedChunks, calls, sumPc>>
ctxVars  == <<ctxSegments, frameTimestamp, contextSeconds, ctxResult, ctxPc>>
trVars   == <<trSource, vttContent, whisperOutput, trSegments, fullText, trPc>>
frVars   == <<frSegments, frMaxFrames, keyMoments, videoDuration, validMoments,
              frI, frameInfos, frPc>>
snapVars == <<snapSegments, snapValid, snapMoment, snapAfter, snapPc>>
rsVars   == <<rsTextLen, rsPath, rsReasonLen, rsPc>>
cliVars  == <<cliFiles, cliOptions, cliPc, cliCalls, cliFrameInfos, cliNarrated,
              cliSummaryInOutput, cliOutputWritten>>
prVars   == <<prForm, prEntries, prKeyMoments, prPc>>
\* the variables of the other components, seen from each component
ctxRest == <<kmVars, narrVars, sumVars, trVars, frVars, snapVars, rsVars, cliVars, prVars>>
trRest == <<kmVars, narrVars, sumVars, ctxVars, frVars, snapVars, rsVars, cliVars, prVars>>
frRest == <<kmVars, narrVars, sumVars, ctxVars, trVars, snapVars, rsVars, cliVars, prVars>>
snapRest == <<kmVars, narrVars, sumVars, ctxVars, trVars, frVars, rsVars, cliVars, prVars>>
rsRest == <<kmVars, narrVars, sumVars, ctxVars, trVars, frVars, snapVars, cliVars, prVars>>
cliRest == <<kmVars, narrVars, sumVars, ctxVars, trVars, frVars, snapVars, rsVars, prVars>>
prRest == <<kmVars, narrVars, sumVars, ctxVars, trVars, frVars, snapVars, rsVars, cliVars>>
moreVars == <<ctxVars, trVars, frVars, snapVars, rsVars, cliVars, prVars>>
vars     == <<kmVars, narrVars, sumVars, moreVars>>

----------------------------------------------------------------------------
(* Bounds of the model *)

\* longest segment list
MaxSegs == 3
\* most candidates parsed out of one AI response
MaxCands == 3
\* largest maxFrames argument
MaxFramesArg == 4
\* most frames handed to the analysis loop
MaxNarrFrames == 3
\* longest transcript text, in characters
MaxTextLen == 9

\* Segment starts, in ticks: 0s, 0.5s, 1.5s
StartTicks == {0, 1, 3}
\* Candidate timestamps named by the AI, in ticks: starts, values within one
\* second of a start, and a value far from every start
CandTicks == StartTicks \cup {2, 4, 6}

Min(a, b) == IF a < b THEN a ELSE b
Max(a, b) == IF a > b THEN a ELSE b
Abs(a) == IF a < 0 THEN -a ELSE a

\* sequences over S of length 0..n
SeqsUpTo(S, n) == UNION {[1..k -> S] : k \in 0..n}

----------------------------------------------------------------------------
(* identifyKeyMoments, src/src/lib/processor.ts 343-542 *)

\* Math.abs(t - moment.timestamp) < 1, with one second in ticks
OneSecond == 2

\* A segment: its start and whether its text contains one of the keyPhrases
SegmentSet == [start : StartTicks, key : BOOLEAN]

\* A parsed candidate; nan is a timestamp that parseFloat could not read
\* (the JSON branch keeps such elements)
CandidateSet == [timestamp : CandTicks, nan : {FALSE}, reason : {"ai"}]
                  \cup [timestamp : {0}, nan : {TRUE}, reason : {"ai"}]

actualTimestamps(segs) == [i \in 1..Len(segs) |-> segs[i].start]

Timestamps(moments) == {moments[i].timestamp : i \in 1..Len(moments)}

\* a duplicate check that never finds the timestamp
NeverClaimed(valid, t) == FALSE

\* validKeyMoments.find(m => m.timestamp === t) is defined
Claimed(valid, t) == t \in Timestamps(valid)

WithinOneSecond(t, moment) ==
    /\ ~moment.nan
    /\ Abs(t - moment.timestamp) < OneSecond

\* actualTimestamps.find(t => Math.abs(t - moment.timestamp) < 1):
\* the index of the first start within one second, 0 when there is none
ClosestIndex(segs, moment) ==
    LET hits == {i \in 1..Len(segs) : WithinOneSecond(segs[i].start, moment)}
    IN  IF hits = {} THEN 0 ELSE CHOOSE i \in hits : \A j \in hits : i <= j

\* an iteration that pushes the candidate as named instead of the start found
ValidateMomentUnsnapped(segs, valid, moment) ==
    LET ci == ClosestIndex(segs, moment)
    IN  IF ci # 0 /\ ~Claimed(valid, segs[ci].start)
        THEN Append(valid, [timestamp |-> moment.timestamp, reason |-> moment.reason])
        ELSE valid

\* one iteration of the validation loop, lines 458-466
ValidateMoment(segs, valid, moment) ==
    LET ci == ClosestIndex(segs, moment)
        exact == ~moment.nan
                 /\ moment.timestamp \in {segs[i].start : i \in 1..Len(segs)}
    IN  IF ci # 0 /\ ~Claimed(valid, segs[ci].start)
        THEN Append(valid, [timestamp |-> segs[ci].start, reason |-> moment.reason])
        ELSE IF exact /\ ~Claimed(valid, moment.timestamp)
        THEN Append(valid, [timestamp |-> moment.timestamp, reason |-> moment.reason])
        ELSE valid

\* which branch of lines 460-465 a candidate takes:
\*   "unmatched"  no start within one second: dropped
\*   "snapped"    accepted at a start that differs from the named timestamp
\*   "exact"      accepted at the start it names
\*   "second"     the start found is claimed; accepted as-is by the else-if
\*   "claimed"    dropped because its start is already claimed
Disposition(segs, valid, moment) ==
    LET ci == ClosestIndex(segs, moment)
    IN  IF ci = 0 THEN "unmatched"
        ELSE IF ~Claimed(valid, segs[ci].start)
        THEN (IF segs[ci].start # moment.timestamp THEN "snapped" ELSE "exact")
        ELSE IF Len(ValidateMoment(segs, valid, moment)) > Len(valid) THEN "second"
        ELSE "claimed"

\* validKeyMoments.length < Math.min(3, actualTimestamps.length), line 469
NeedsFallback(segs, valid) == Len(valid) < Min(3, Len(segs))

\* segments.filter(segment => keyPhrases.some(...)), lines 490-493
importantSegments(segs) == SelectSeq(segs, LAMBDA s : s.key)

\* Math.max(1, Math.floor(importantSegments.length / (maxFrames - 2))).
\* A zero divisor gives Infinity (or NaN for an empty list): the loop then
\* runs at most its first iteration, which a step beyond the list models.
KeywordStep(n, mf) ==
    IF mf - 2 = 0 THEN n + 1
    ELSE IF mf - 2 < 0 THEN 1
    ELSE Max(1, n \div (mf - 2))

\* the preview push of lines 499-505 and 515-521
PushPreview(valid, seg) ==
    IF Claimed(valid, seg.start) THEN valid
    ELSE Append(valid, [timestamp |-> seg.start, reason |-> "Preview"])

\* a keyword loop that stops one entry later
RECURSIVE KeywordLoopOneMore(_, _, _, _, _)
KeywordLoopOneMore(imp, i, step, valid, mf) ==
    IF i < Len(imp) /\ Len(valid) < mf
    THEN KeywordLoopOneMore(imp, i + step, step, PushPreview(valid, imp[i + 1]), mf)
    ELSE valid

\* the for loop of lines 497-506 (i is the 0-based index)
RECURSIVE KeywordLoop(_, _, _, _, _)
KeywordLoop(imp, i, step, valid, mf) ==
    IF i < Len(imp) /\ Len(valid) < mf - 1
    THEN KeywordLoop(imp, i + step, step, PushPreview(valid, imp[i + 1]), mf)
    ELSE valid

\* the for loop of lines 513-522
RECURSIVE EvenLoop(_, _, _, _, _)
EvenLoop(segs, i, step, valid, mf) ==
    IF i < Len(segs) /\ Len(valid) < mf - 1
    THEN EvenLoop(segs, i + step, step, PushPreview(valid, segs[i + 1]), mf)
    ELSE valid

\* lines 509-523
EvenDistribution(segs, valid, mf) ==
    IF Len(valid) < Min(10, mf) /\ Len(segs) > 0
    THEN LET targetCount == Min(mf - Len(valid), Len(segs))
             step == Max(1, Len(segs) \div targetCount)
         IN  EvenLoop(segs, step, step, valid, mf)
    ELSE valid

\* a fallback that forgets the last segment
PushLastNever(segs, valid) == valid

\* lines 526-532
PushLast(segs, valid) ==
    IF Len(segs) > 0 /\ ~Claimed(valid, segs[Len(segs)].start)
    THEN Append(valid, [timestamp |-> segs[Len(segs)].start, reason |-> "Conclusion"])
    ELSE valid

\* lines 472-481: the array is emptied, then the first segment is pushed
PushFirst(segs) ==
    IF Len(segs) > 0
    THEN <<[timestamp |-> segs[1].start, reason |-> "Opening"]>>
    ELSE <<>>

\* the whole branch of lines 469-533
FallbackMoments(segs, mf) ==
    LET v1 == PushFirst(segs)
        imp == importantSegments(segs)
        v2 == KeywordLoop(imp, 0, KeywordStep(Len(imp), mf), v1, mf)
        v3 == EvenDistribution(segs, v2, mf)
    IN  PushLast(segs, v3)

\* a fallback that adds its moments to those accepted from the AI
FallbackKeepingAccepted(valid, segs, mf) == valid \o FallbackMoments(segs, mf)

\* lines 469-533 on the accepted moments: validKeyMoments.length = 0 of line
\* 472 discards them before the pushes
FallbackResult(valid, segs, mf) == FallbackMoments(segs, mf)

\* insertion of one moment into a list sorted by timestamp (stable)
RECURSIVE InsertSorted(_, _)
InsertSorted(sorted, m) ==
    IF sorted = <<>> THEN <<m>>
    ELSE IF sorted[Len(sorted)].timestamp <= m.timestamp THEN Append(sorted, m)
    ELSE Append(InsertSorted(SubSeq(sorted, 1, Len(sorted) - 1), m),
                sorted[Len(sorted)])

\* .sort((a, b) => a.timestamp - b.timestamp), line 536
RECURSIVE SortByTimestamp(_)
SortByTimestamp(moments) ==
    IF moments = <<>> THEN <<>>
    ELSE InsertSorted(SortByTimestamp(SubSeq(moments, 1, Len(moments) - 1)),
                      moments[Len(moments)])

\* .slice(0, maxFrames) for maxFrames >= 0, line 537
SliceTo(moments, mf) == SubSeq(moments, 1, Min(Len(moments), mf))

\* a return that truncates without sorting
FinalMomentsUnsorted(moments, mf) == SliceTo(moments, mf)

\* lines 535-537
FinalMoments(moments, mf) == SliceTo(SortByTimestamp(moments), mf)

KMIdle ==
    /\ segments = <<>>
    /\ maxFrames = 0
    /\ kmPc = "idle"
    /\ validKeyMoments = <<>>
    /\ nCands = 0
    /\ kmResult = <<>>
    /\ usedFallback = FALSE
    /\ kmSeen = {}

InitKMVars ==
    /\ segments \in SeqsUpTo(SegmentSet, MaxSegs)
    /\ maxFrames \in 0..MaxFramesArg
    /\ kmPc = "call"
    /\ validKeyMoments = <<>>
    /\ nCands = 0
    /\ kmResult = <<>>
    /\ usedFallback = FALSE
    /\ kmSeen = {}

\* checkOllamaModel/pullOllamaModel/axios.post throws: the catch of lines
\* 538-541 logs and rethrows
KMCallFails ==
    /\ kmPc = "call"
    /\ kmPc' = "threw"
    /\ UNCHANGED <<segments, maxFrames, validKeyMoments, nCands, kmResult,
                   usedFallback, kmSeen>>
    /\ UNCHANGED <<narrVars, sumVars, moreVars>>

\* the response arrived and was parsed into keyMoments (lines 393-452)
KMResponse ==
    /\ kmPc = "call"
    /\ kmPc' = "validate"
    /\ UNCHANGED <<segments, maxFrames, validKeyMoments, nCands, kmResult,
                   usedFallback, kmSeen>>
    /\ UNCHANGED <<narrVars, sumVars, moreVars>>

\* one iteration of for (const moment of keyMoments), lines 458-466
KMValidate ==
    /\ kmPc = "validate"
    /\ nCands < MaxCands
    /\ \E moment \in CandidateSet :
         /\ validKeyMoments' = ValidateMoment(segments, validKeyMoments, moment)
         /\ kmSeen' = kmSeen \cup {Disposition(segments, validKeyMoments, moment)}
    /\ nCands' = nCands + 1
    /\ UNCHANGED <<segments, maxFrames, kmPc, kmResult, usedFallback>>
    /\ UNCHANGED <<narrVars, sumVars, moreVars>>

\* the loop is over: fallback decision, fallback, sort, slice, return
KMReturn ==
    /\ kmPc = "validate"
    /\ usedFallback' = NeedsFallback(segments, validKeyMoments)
    /\ validKeyMoments' = IF NeedsFallback(segments, validKeyMoments)
                          THEN FallbackResult(validKeyMoments, segments, maxFrames)
                          ELSE validKeyMoments
    /\ kmResult' = FinalMoments(validKeyMoments', maxFrames)
    /\ kmPc' = "done"
    /\ UNCHANGED <<segments, maxFrames, nCands, kmSeen>>
    /\ UNCHANGED <<narrVars, sumVars, moreVars>>


NextKM == KMCallFails \/ KMResponse \/ KMValidate \/ KMReturn

----------------------------------------------------------------------------
(* The frame analysis loop, src/src/index.ts 358-398, and summarizeFrame,  *)
(* src/src/lib/processor.ts 248-304                                        *)

\* How a summarizeFrame call can end.  The first four are HTTP successes,
\* told apart by the shape of response.data.message.content:
\*   "line"  one line of text          "multi"  text with a line break
\*   "empty" the empty string          "blank"  blanks only
\* "http400" is an axios error with status 400; "throw" is any other failure
\* (model pull, file read, connection, other status).
ContentKinds == {"line", "multi", "empty", "blank"}
OutcomeSet == ContentKinds \cup {"http400", "throw"}

\* previousFrameDescription = undefined
NoContext == [kind |-> "none", frame |-> 0]

\* What summarizeFrame returns (lines 296 and 300); it throws on "throw"
summarizeFrame(k, outcome) ==
    IF outcome = "http400"
    THEN [frame |-> k, kind |-> "unsupported", content |-> "line"]
    ELSE [frame |-> k, kind |-> "narration", content |-> outcome]

\* frameSummary.match(/Frame \d+: (.+)$/): without the m and s flags the
\* group cannot cross a line break and needs at least one character
descriptionMatch(summary) == summary.content \in {"line", "blank"}

\* lines 374-377: descriptionMatch[1].trim(), kept only on a match
CarriedDescription(prev, summary) ==
    IF ~descriptionMatch(summary) THEN prev
    ELSE IF summary.content = "blank" THEN [kind |-> "emptystring", frame |-> summary.frame]
    ELSE IF summary.kind = "unsupported" THEN [kind |-> "unsupported", frame |-> summary.frame]
    ELSE [kind |-> "description", frame |-> summary.frame]

\* if (previousFrameContext) of line 270: undefined and "" add no context
PromptContextOf(prev) ==
    IF prev.kind \in {"none", "emptystring"} THEN NoContext ELSE prev

\* a loop that issues the calls without awaiting them
NoAwait(pending) == TRUE

\* await summarizeFrame(...) inside for..of, line 371: the next iteration
\* starts only when the pending call has settled
AwaitPrevious(pending) == pending = {}

NarrIdle ==
    /\ nFrames = 0
    /\ nextFrame = 1
    /\ inFlight = {}
    /\ previousFrameDescription = NoContext
    /\ frameSummaries = <<>>
    /\ promptContext = <<>>
    /\ outcomes = <<>>
    /\ narrPc = "idle"

InitNarrVars ==
    /\ nFrames \in 1..MaxNarrFrames
    /\ nextFrame = 1
    /\ inFlight = {}
    /\ previousFrameDescription = NoContext
    /\ frameSummaries = <<>>
    /\ promptContext = <<>>
    /\ outcomes = <<>>
    /\ narrPc = "loop"

\* the loop body up to the await: the prompt is built and the call issued
NarrStartCall ==
    /\ narrPc = "loop"
    /\ nextFrame <= nFrames
    /\ AwaitPrevious(inFlight)
    /\ inFlight' = inFlight \cup {nextFrame}
    /\ promptContext' = Append(promptContext, PromptContextOf(previousFrameDescription))
    /\ nextFrame' = nextFrame + 1
    /\ UNCHANGED <<nFrames, previousFrameDescription, frameSummaries, outcomes, narrPc>>
    /\ UNCHANGED <<kmVars, sumVars, moreVars>>

\* summarizeFrame returned (a description or the 400 text): lines 373-388
NarrCallReturns ==
    /\ narrPc = "loop"
    /\ \E k \in inFlight, outcome \in OutcomeSet \ {"throw"} :
         LET frameSummary == summarizeFrame(k, outcome)
         IN  /\ previousFrameDescription' =
                    CarriedDescription(previousFrameDescription, frameSummary)
             /\ frameSummaries' = Append(frameSummaries,
                    [frame |-> k, kind |-> frameSummary.kind, transcript |-> TRUE])
             /\ outcomes' = Append(outcomes, outcome)
             /\ inFlight' = inFlight \ {k}
    /\ UNCHANGED <<nFrames, nextFrame, promptContext, narrPc>>
    /\ UNCHANGED <<kmVars, sumVars, moreVars>>

\* summarizeFrame threw: the catch of lines 389-394
NarrCallThrows ==
    /\ narrPc = "loop"
    /\ \E k \in inFlight :
         /\ frameSummaries' = Append(frameSummaries,
                [frame |-> k, kind |-> "failed", transcript |-> FALSE])
         /\ previousFrameDescription' = NoContext
         /\ outcomes' = Append(outcomes, "throw")
         /\ inFlight' = inFlight \ {k}
    /\ UNCHANGED <<nFrames, nextFrame, promptContext, narrPc>>
    /\ UNCHANGED <<kmVars, sumVars, moreVars>>

\* a loop that leaves before its last element
LoopLeavesEarly(next, n) == next >= n

\* for (const frameInfo of frameInfos), line 368: the iterator is done
\* only after the last element; neither branch of the body breaks or
\* rethrows
LoopExhausted(next, n) == next > n

\* the for..of loop is exhausted, line 397
NarrLoopEnds ==
    /\ narrPc = "loop"
    /\ LoopExhausted(nextFrame, nFrames)
    /\ inFlight = {}
    /\ narrPc' = "done"
    /\ UNCHANGED <<nFrames, nextFrame, inFlight, previousFrameDescription,
                   frameSummaries, promptContext, outcomes>>
    /\ UNCHANGED <<kmVars, sumVars, moreVars>>

NextNarr == NarrStartCall \/ NarrCallReturns \/ NarrCallThrows \/ NarrLoopEnds

----------------------------------------------------------------------------
(* summarizeWithOllama, src/src/lib/processor.ts 829-893 *)

\* const MAX_CHUNK_SIZE = 3000, scaled down to the text lengths of the model
MAX_CHUNK_SIZE == 4

\* a word character, a blank, a sentence terminator (one of . ! ?)
Alphabet == {"a", " ", "."}
TextSet == SeqsUpTo(Alphabet, MaxTextLen)

IsTerminator(c) == c = "."
IsBlank(c) == c = " "

\* the first index >= from whose character is (term = TRUE) or is not
\* (term = FALSE) a terminator; Len(text) + 1 when there is none
NextIndex(text, from, term) ==
    LET hits == {i \in from..Len(text) : IsTerminator(text[i]) = term}
    IN  IF hits = {} THEN Len(text) + 1
        ELSE CHOOSE i \in hits : \A j \in hits : i <= j

\* transcript.match(/[^.!?]+[.!?]+/g): successive leftmost matches of a run
\* of non-terminators followed by a run of terminators, both greedy
RECURSIVE MatchAll(_, _)
MatchAll(text, pos) ==
    LET i == NextIndex(text, pos, FALSE)
        j == NextIndex(text, i, TRUE)
        k == NextIndex(text, j, FALSE)
    IN  IF i > Len(text) \/ j > Len(text) THEN <<>>
        ELSE <<SubSeq(text, i, k - 1)>> \o MatchAll(text, k)

\* line 847: ... || [transcript]
sentences(text) ==
    LET m == MatchAll(text, 1) IN IF m = <<>> THEN <<text>> ELSE m

RECURSIVE TrimLeft(_)
TrimLeft(text) ==
    IF text # <<>> /\ IsBlank(Head(text)) THEN TrimLeft(Tail(text)) ELSE text

RECURSIVE TrimRight(_)
TrimRight(text) ==
    IF text # <<>> /\ IsBlank(text[Len(text)])
    THEN TrimRight(SubSeq(text, 1, Len(text) - 1)) ELSE text

\* String.prototype.trim
Trim(text) == TrimRight(TrimLeft(text))

\* a flush condition without the non-empty buffer test
FlushWhenTooLong(currentChunk, sentence) ==
    Len(currentChunk) + Len(sentence) > MAX_CHUNK_SIZE

\* the condition of line 851
FlushBeforeAppend(currentChunk, sentence) ==
    /\ Len(currentChunk) + Len(sentence) > MAX_CHUNK_SIZE
    /\ Len(currentChunk) > 0

\* the for loop of lines 850-857, from sentence i on
RECURSIVE ChunkLoop(_, _, _, _)
ChunkLoop(sents, i, acc, currentChunk) ==
    IF i > Len(sents) THEN [chunks |-> acc, currentChunk |-> currentChunk]
    ELSE IF FlushBeforeAppend(currentChunk, sents[i])
    THEN ChunkLoop(sents, i + 1, Append(acc, Trim(currentChunk)), sents[i])
    ELSE ChunkLoop(sents, i + 1, acc, currentChunk \o sents[i])

\* lines 844-861: the chunking step
ChunkTranscript(text) ==
    LET r == ChunkLoop(sentences(text), 1, <<>>, <<>>)
    IN  IF Trim(r.currentChunk) # <<>>
        THEN Append(r.chunks, Trim(r.currentChunk))
        ELSE r.chunks

\* a map call that is always given its chunk
MapInputChunk(text, chs, i) == chs[i]

\* what the map call for chunk i is given: lines 866 and 876
MapInput(text, chs, i) == IF Len(chs) = 1 THEN text ELSE chs[i]

\* a map phase that stops after the first chunk
MapPhaseOverEarly(mapped, chs) == Len(mapped) >= Min(1, Len(chs))

\* lines 864-868 and the loop condition of line 874: no map call is left
MapPhaseOver(mapped, chs) == Len(mapped) >= Len(chs)

CallEvent(op, ev, i, total, text, extractions) ==
    [op |-> op, ev |-> ev, chunkNumber |-> i, totalChunks |-> total,
     text |-> text, extractions |-> extractions]

SumIdle ==
    /\ transcript = <<>>
    /\ chunks = <<>>
    /\ mappedChunks = <<>>
    /\ calls = <<>>
    /\ sumPc = "idle"

InitSumVars ==
    /\ transcript \in TextSet
    /\ chunks = <<>>
    /\ mappedChunks = <<>>
    /\ calls = <<>>
    /\ sumPc = "start"

\* lines 836-861: the model is there (or was pulled); the text is chunked
SumChunk ==
    /\ sumPc = "start"
    /\ chunks' = ChunkTranscript(transcript)
    /\ sumPc' = IF MapPhaseOver(mappedChunks, chunks') THEN "reduce" ELSE "map"
    /\ UNCHANGED <<transcript, mappedChunks, calls>>
    /\ UNCHANGED <<kmVars, narrVars, moreVars>>

\* pullOllamaModel throws, lines 839 and 883-892
SumPullFails ==
    /\ sumPc = "start"
    /\ sumPc' = "failed"
    /\ UNCHANGED <<transcript, chunks, mappedChunks, calls>>
    /\ UNCHANGED <<kmVars, narrVars, moreVars>>

\* mapChunk is called for the next chunk, lines 866 and 876
SumMapStart ==
    /\ sumPc = "map"
    /\ LET i == Len(mappedChunks) + 1
       IN  calls' = Append(calls, CallEvent("map", "start", i, Len(chunks),
                                            MapInput(transcript, chunks, i), <<>>))
    /\ sumPc' = "mapping"
    /\ UNCHANGED <<transcript, chunks, mappedChunks>>
    /\ UNCHANGED <<kmVars, narrVars, moreVars>>

\* the map call answers: its extraction is pushed, lines 866 and 877
SumMapReturns ==
    /\ sumPc = "mapping"
    /\ LET i == Len(mappedChunks) + 1
           input == MapInput(transcript, chunks, i)
       IN  /\ mappedChunks' = Append(mappedChunks, [chunkNumber |-> i, of |-> input])
           /\ calls' = Append(calls, CallEvent("map", "end", i, Len(chunks), input, <<>>))
    /\ sumPc' = IF MapPhaseOver(mappedChunks', chunks) THEN "reduce" ELSE "map"
    /\ UNCHANGED <<transcript, chunks>>
    /\ UNCHANGED <<kmVars, narrVars, moreVars>>

\* the map call fails: the catch of lines 883-892 rethrows
SumMapFails ==
    /\ sumPc = "mapping"
    /\ LET i == Len(mappedChunks) + 1
       IN  calls' = Append(calls, CallEvent("map", "fail", i, Len(chunks),
                                            MapInput(transcript, chunks, i), <<>>))
    /\ sumPc' = "failed"
    /\ UNCHANGED <<transcript, chunks, mappedChunks>>
    /\ UNCHANGED <<kmVars, narrVars, moreVars>>

\* reduceChunks is called, lines 867 and 882
SumReduceStart ==
    /\ sumPc = "reduce"
    /\ calls' = Append(calls, CallEvent("reduce", "start", 0, Len(chunks),
                                        transcript, mappedChunks))
    /\ sumPc' = "reducing"
    /\ UNCHANGED <<transcript, chunks, mappedChunks>>
    /\ UNCHANGED <<kmVars, narrVars, moreVars>>

\* the reduce call answers: summarizeWithOllama returns the summary
SumReduceReturns ==
    /\ sumPc = "reducing"
    /\ calls' = Append(calls, CallEvent("reduce", "end", 0, Len(chunks),
                                        transcript, mappedChunks))
    /\ sumPc' = "done"
    /\ UNCHANGED <<transcript, chunks, mappedChunks>>
    /\ UNCHANGED <<kmVars, narrVars, moreVars>>

\* the reduce call fails: the catch of lines 883-892 rethrows
SumReduceFails ==
    /\ sumPc = "reducing"
    /\ calls' = Append(calls, CallEvent("reduce", "fail", 0, Len(chunks),
                                        transcript, mappedChunks))
    /\ sumPc' = "failed"
    /\ UNCHANGED <<transcript, chunks, mappedChunks>>
    /\ UNCHANGED <<kmVars, narrVars, moreVars>>

NextSum ==
    \/ SumChunk \/ SumPullFails
    \/ SumMapStart \/ SumMapReturns \/ SumMapFails
    \/ SumReduceStart \/ SumReduceReturns \/ SumReduceFails

----------------------------------------------------------------------------
(* getRelevantTranscriptForFrame, src/src/lib/processor.ts 312-330 *)

\* times of the context matcher's inputs, in seconds
CtxTimes == {0, 1, 3}
CtxFrameTimes == {0, 2, 5}
CtxWindows == {0, 1, 2}
\* segment texts: characters, possibly none
CtxTexts == {<<>>, <<"A">>, <<"B", "b">>}

\* longest segment list given to the context matcher
MaxCtxSegs == 3

\* TranscriptSegment, lines 44-48; a segment ends no earlier than it starts
CtxSegmentSet ==
    {s \in [text : CtxTexts, start : CtxTimes, end : CtxTimes] : s.start <= s.end}

\* the marker of line 326, one token that no segment text contains
NoTranscript == <<"[No transcript available for this timestamp]">>

\* Array.prototype.join
RECURSIVE JoinWith(_, _)
JoinWith(texts, sep) ==
    IF texts = <<>> THEN <<>>
    ELSE IF Len(texts) = 1 THEN texts[1]
    ELSE texts[1] \o sep \o JoinWith(Tail(texts), sep)

\* an overlap test that leaves out the window's end points
OverlapsStrictly(segment, t, c) ==
    segment.start < t + c /\ segment.end > t - c

\* segment.start <= endTime && segment.end >= startTime, lines 318-323
Overlaps(segment, t, c) ==
    segment.start <= t + c /\ segment.end >= t - c

getRelevantTranscriptForFrame(t, segs, c) ==
    LET relevantSegments == SelectSeq(segs, LAMBDA s : Overlaps(s, t, c))
    IN  IF Len(relevantSegments) = 0 THEN NoTranscript
        ELSE JoinWith([i \in 1..Len(relevantSegments) |-> relevantSegments[i].text],
                      <<" ">>)

CtxIdle ==
    /\ ctxSegments = <<>>
    /\ frameTimestamp = 0
    /\ contextSeconds = 0
    /\ ctxResult = <<>>
    /\ ctxPc = "idle"

InitCtxVars ==
    /\ ctxSegments \in SeqsUpTo(CtxSegmentSet, MaxCtxSegs)
    /\ frameTimestamp \in CtxFrameTimes
    /\ contextSeconds \in CtxWindows
    /\ ctxResult = <<>>
    /\ ctxPc = "call"

CtxReturn ==
    /\ ctxPc = "call"
    /\ ctxResult' = getRelevantTranscriptForFrame(frameTimestamp, ctxSegments,
                                                  contextSeconds)
    /\ ctxPc' = "done"
    /\ UNCHANGED <<ctxSegments, frameTimestamp, contextSeconds>>
    /\ UNCHANGED ctxRest

NextCtx == CtxReturn

----------------------------------------------------------------------------
(* parseVTT, src/src/lib/processor.ts 602-663, and the segment conversion of
   transcribeAudio, 196-217 *)

\* longest subtitle file, in lines
MaxVttLines == 5
\* most segments in whisper's output
MaxWhisperSegs == 3

\* HH:MM:SS of a cue time (milliseconds 000)
VttZero == [hh |-> 0, mm |-> 0, ss |-> 0]
VttFive == [hh |-> 0, mm |-> 0, ss |-> 5]
VttMinute == [hh |-> 0, mm |-> 1, ss |-> 0]

\* the lines a subtitle file is made of: kind tells what the patterns of
\* parseVTT see in the line, raw is the line itself
VttLineSet ==
    { [kind |-> "blank",  raw |-> " ",      from |-> VttZero, to |-> VttZero],
      [kind |-> "header", raw |-> "WEBVTT", from |-> VttZero, to |-> VttZero],
      [kind |-> "note",   raw |-> "NOTE",   from |-> VttZero, to |-> VttZero],
      [kind |-> "arrow",  raw |-> "a --> b", from |-> VttZero, to |-> VttZero],
      [kind |-> "text",   raw |-> "A",      from |-> VttZero, to |-> VttZero],
      [kind |-> "text",   raw |-> "B",      from |-> VttZero, to |-> VttZero],
      [kind |-> "ts", raw |-> "00:00:05.000 --> 00:01:00.000",
       from |-> VttFive, to |-> VttMinute],
      [kind |-> "ts", raw |-> "00:01:00,000 --> 00:01:00,000",
       from |-> VttMinute, to |-> VttMinute] }

\* whisper's segment texts, before trimming
WhisperTexts == {<<"a">>, <<" ", "a">>, <<"b", " ">>, <<" ">>}
WhisperSegmentSet == [text : WhisperTexts, start : {0, 2}, end : {3}]

\* line.trim() is empty
IsBlankLine(line) == line.kind = "blank"
\* line.includes('-->')
HasArrow(line) == line.kind \in {"arrow", "ts"}
\* line.match(/(\d{2}:\d{2}:\d{2}[.,]\d{3})\s*-->\s*(...)/)
MatchesTimestamps(line) == line.kind = "ts"

\* hours * 3600 + minutes * 60 + seconds
parseVTTTimestamp(timestamp) ==
    timestamp.hh * 3600 + timestamp.mm * 60 + timestamp.ss

\* the maximal runs of non-blank lines
RECURSIVE Runs(_, _)
Runs(lines, run) ==
    IF lines = <<>> THEN (IF run = <<>> THEN <<>> ELSE <<run>>)
    ELSE IF IsBlankLine(Head(lines))
         THEN (IF run = <<>> THEN <<>> ELSE <<run>>) \o Runs(Tail(lines), <<>>)
         ELSE Runs(Tail(lines), Append(run, Head(lines)))

\* vttContent.split(/\n\s*\n/).filter(block => block.trim()): blank lines
\* separate blocks, but a single blank first line has no newline before it
\* and stays at the head of the first block
SplitBlocks(lines) ==
    LET runs == Runs(lines, <<>>)
    IN  IF Len(lines) >= 2 /\ IsBlankLine(lines[1]) /\ ~IsBlankLine(lines[2])
        THEN <<<<lines[1]>> \o Head(runs)>> \o Tail(runs)
        ELSE runs

\* block.startsWith('WEBVTT') || block.startsWith('NOTE')
StartsWithHeaderOrNote(block) == block[1].kind \in {"header", "note"}

\* block.trim().split('\n')
BlockLines(block) == SelectSeq(block, LAMBDA line : ~IsBlankLine(line))

\* index of lines.find(line => line.includes('-->')), 0 when there is none
TimestampLineIndex(lines) ==
    LET hits == {i \in 1..Len(lines) : HasArrow(lines[i])}
    IN  IF hits = {} THEN 0 ELSE CHOOSE i \in hits : \A j \in hits : i <= j

\* lines.slice(textStartIndex).join(' ').trim()
CueText(lines, idx) ==
    Trim(JoinWith([i \in 1..(Len(lines) - idx) |-> <<lines[idx + i].raw>>], <<" ">>))

\* a push of the cue whatever its text
PushAlways(cue) == <<cue>>

\* if (text) cues.push(...)
PushIfText(cue) == IF cue.text # <<>> THEN <<cue>> ELSE <<>>

\* one iteration of the loop over the blocks: the cues it pushes
ParseBlock(block) ==
    IF StartsWithHeaderOrNote(block) THEN <<>>
    ELSE LET lines == BlockLines(block)
             idx == TimestampLineIndex(lines)
         IN  IF Len(lines) < 2 THEN <<>>
             ELSE IF idx = 0 THEN <<>>
             ELSE IF ~MatchesTimestamps(lines[idx]) THEN <<>>
             ELSE PushIfText([start |-> parseVTTTimestamp(lines[idx].from),
                              end |-> parseVTTTimestamp(lines[idx].to),
                              text |-> CueText(lines, idx)])

RECURSIVE ParseBlocks(_)
ParseBlocks(blocks) ==
    IF blocks = <<>> THEN <<>>
    ELSE ParseBlock(Head(blocks)) \o ParseBlocks(Tail(blocks))

\* cues.map(cue => ({text, start, end})): the cues in push order
parseVTTSegments(lines) == ParseBlocks(SplitBlocks(lines))

\* whisperOutput.segments.map(seg => ({text: seg.text.trim(), ...}))
whisperSegments(output) ==
    [i \in 1..Len(output) |-> [text |-> Trim(output[i].text),
                               start |-> output[i].start,
                               end |-> output[i].end]]

\* a full text that runs the segment texts together
fullTextConcatenated(segs) ==
    JoinWith([i \in 1..Len(segs) |-> segs[i].text], <<>>)

\* segments.map(s => s.text).join(' ')
fullTextOf(segs) ==
    JoinWith([i \in 1..Len(segs) |-> segs[i].text], <<" ">>)

TrIdle ==
    /\ trSource = "none"
    /\ vttContent = <<>>
    /\ whisperOutput = <<>>
    /\ trSegments = <<>>
    /\ fullText = <<>>
    /\ trPc = "idle"

InitTrVars ==
    /\ \/ /\ trSource = "vtt"
          /\ vttContent \in SeqsUpTo(VttLineSet, MaxVttLines)
          /\ whisperOutput = <<>>
       \/ /\ trSource = "whisper"
          /\ vttContent = <<>>
          /\ whisperOutput \in SeqsUpTo(WhisperSegmentSet, MaxWhisperSegs)
    /\ trSegments = <<>>
    /\ fullText = <<>>
    /\ trPc = "call"

\* parseVTT returns
TrParseVTT ==
    /\ trPc = "call"
    /\ trSource = "vtt"
    /\ trSegments' = parseVTTSegments(vttContent)
    /\ fullText' = fullTextOf(parseVTTSegments(vttContent))
    /\ trPc' = "done"
    /\ UNCHANGED <<trSource, vttContent, whisperOutput>>
    /\ UNCHANGED trRest

\* the whisper process closed with code 0 and its JSON output was read
TrTranscribeAudio ==
    /\ trPc = "call"
    /\ trSource = "whisper"
    /\ trSegments' = whisperSegments(whisperOutput)
    /\ fullText' = fullTextOf(whisperSegments(whisperOutput))
    /\ trPc' = "done"
    /\ UNCHANGED <<trSource, vttContent, whisperOutput>>
    /\ UNCHANGED trRest

NextTr == TrParseVTT \/ TrTranscribeAudio

----------------------------------------------------------------------------
(* extractFramesAtTimestamps, src/src/lib/processor.ts 107-156, on the key
   moments of identifyKeyMoments (src/src/index.ts 326-343) *)

\* most transcript segments of a video whose frames are extracted
MaxFrSegs == 2

FrMaxFramesSet == {1, 3}

\* parseFloat(durationResult.stdout.trim()): a number of ticks, or NaN
NotANumber == [nan |-> TRUE, value |-> 0]
FrDurations == {NotANumber} \cup [nan : {FALSE}, value : {0, 1, 3, 4}]

\* the validation loop over the parsed candidates, lines 458-466
RECURSIVE ValidateAll(_, _, _)
ValidateAll(segs, valid, cands) ==
    IF cands = <<>> THEN valid
    ELSE ValidateAll(segs, ValidateMoment(segs, valid, Head(cands)), Tail(cands))

\* the value identifyKeyMoments returns when the AI named cands; the
\* videoDuration parameter is never read (lines 343-349)
identifyKeyMoments(segs, mf, cands) ==
    LET valid == ValidateAll(segs, <<>>, cands)
    IN  FinalMoments(IF NeedsFallback(segs, valid)
                     THEN FallbackResult(valid, segs, mf) ELSE valid, mf)

\* a filter that keeps a moment at the very end of the video
NotPastVideo(m, duration) == ~duration.nan /\ m.timestamp <= duration.value

\* m.timestamp < videoDuration, line 123 (false for NaN)
BeforeVideoEnd(m, duration) == ~duration.nan /\ m.timestamp < duration.value

FrIdle ==
    /\ frSegments = <<>>
    /\ frMaxFrames = 0
    /\ keyMoments = <<>>
    /\ videoDuration = NotANumber
    /\ validMoments = <<>>
    /\ frI = 0
    /\ frameInfos = <<>>
    /\ frPc = "idle"

InitFrVars ==
    /\ frSegments \in SeqsUpTo(SegmentSet, MaxFrSegs)
    /\ frMaxFrames \in FrMaxFramesSet
    /\ keyMoments = <<>>
    /\ videoDuration = NotANumber
    /\ validMoments = <<>>
    /\ frI = 0
    /\ frameInfos = <<>>
    /\ frPc = "identify"

\* identifyKeyMoments returns (index.ts 333-340)
FrIdentifyKeyMoments ==
    /\ frPc = "identify"
    /\ \E cands \in SeqsUpTo(CandidateSet, Len(frSegments)) :
           keyMoments' = identifyKeyMoments(frSegments, frMaxFrames, cands)
    /\ frPc' = "probe"
    /\ UNCHANGED <<frSegments, frMaxFrames, videoDuration, validMoments, frI,
                   frameInfos>>
    /\ UNCHANGED frRest

\* ffprobe and the filter, lines 118-123
FrProbe ==
    /\ frPc = "probe"
    /\ \E duration \in FrDurations :
           /\ videoDuration' = duration
           /\ validMoments' =
                  SelectSeq(keyMoments, LAMBDA m : BeforeVideoEnd(m, duration))
    /\ frPc' = "extract"
    /\ UNCHANGED <<frSegments, frMaxFrames, keyMoments, frI, frameInfos>>
    /\ UNCHANGED frRest

\* ffmpeg wrote the frame, lines 139-148
FrExtractOk ==
    /\ frPc = "extract"
    /\ frI < Len(validMoments)
    /\ frameInfos' = Append(frameInfos,
                            [timestamp |-> validMoments[frI + 1].timestamp,
                             frameNumber |-> frI + 1])
    /\ frI' = frI + 1
    /\ UNCHANGED <<frSegments, frMaxFrames, keyMoments, videoDuration,
                   validMoments, frPc>>
    /\ UNCHANGED frRest

\* ffmpeg failed: the catch of lines 149-151 logs and goes on
FrExtractFails ==
    /\ frPc = "extract"
    /\ frI < Len(validMoments)
    /\ frI' = frI + 1
    /\ UNCHANGED <<frSegments, frMaxFrames, keyMoments, videoDuration,
                   validMoments, frameInfos, frPc>>
    /\ UNCHANGED frRest

\* return frameInfos, line 154
FrReturn ==
    /\ frPc = "extract"
    /\ frI = Len(validMoments)
    /\ frPc' = "done"
    /\ UNCHANGED <<frSegments, frMaxFrames, keyMoments, videoDuration,
                   validMoments, frI, frameInfos>>
    /\ UNCHANGED frRest

NextFr == FrIdentifyKeyMoments \/ FrProbe \/ FrExtractOk \/ FrExtractFails
          \/ FrReturn

----------------------------------------------------------------------------
(* One iteration of the validation loop of identifyKeyMoments,
   src/src/lib/processor.ts 454-466, seen with its candidate *)

\* most segments of the transcript in the validation step
MaxSnapSegs == 3

SnapSegmentSet == [start : StartTicks, key : {FALSE}]

NoMoment == [timestamp |-> 0, nan |-> TRUE, reason |-> "none"]

SnapIdle ==
    /\ snapSegments = <<>>
    /\ snapValid = <<>>
    /\ snapMoment = NoMoment
    /\ snapAfter = <<>>
    /\ snapPc = "idle"

\* the loop has run over at most one earlier candidate
InitSnapVars ==
    /\ snapSegments \in SeqsUpTo(SnapSegmentSet, MaxSnapSegs)
    /\ \E earlier \in SeqsUpTo(CandidateSet, 1) :
           snapValid = ValidateAll(snapSegments, <<>>, earlier)
    /\ snapMoment = NoMoment
    /\ snapAfter = <<>>
    /\ snapPc = "loop"

\* the body of for (const moment of keyMoments), lines 458-466
SnapValidate ==
    /\ snapPc = "loop"
    /\ \E moment \in CandidateSet :
           /\ snapMoment' = moment
           /\ snapAfter' = ValidateMoment(snapSegments, snapValid, moment)
    /\ snapPc' = "done"
    /\ UNCHANGED <<snapSegments, snapValid>>
    /\ UNCHANGED snapRest

NextSnap == SnapValidate

----------------------------------------------------------------------------
(* The reason of a key moment, src/src/lib/processor.ts 414-443 and 474-532;
   texts are represented by their lengths *)

\* longest reason named by the AI, longest segment text
MaxTextLength == 105

\* the limits of the substring calls
ReasonLimit == 100
OpeningLimit == 50
PreviewLimit == 60

\* the literals of the template strings
DefaultReason == <<"K", "e", "y", " ", "m", "o", "m", "e", "n", "t">>
OpeningPrefix == <<"O", "p", "e", "n", "i", "n", "g", ":", " ">>
ConclusionPrefix == <<"C", "o", "n", "c", "l", "u", "s", "i", "o", "n", ":", " ">>
Ellipsis == <<".", ".", ".">>

\* length of text.substring(0, limit) for a text of length len
SubstringLen(len, limit) == Min(len, limit)

\* a reason kept at its full length
Untruncated(len) == len

\* reason.substring(0, 100), lines 421 and 438
Truncated(len) == SubstringLen(len, ReasonLimit)

\* String(item.reason || 'Key moment').substring(0, 100), line 421
JsonReasonLen(len) == Truncated(IF len = 0 THEN Len(DefaultReason) ELSE len)

\* `Opening: ${firstSegment.text.substring(0, 50)}...`, line 479
OpeningReasonLen(len) ==
    Len(OpeningPrefix) + SubstringLen(len, OpeningLimit) + Len(Ellipsis)

\* `Conclusion: ${lastSegment.text.substring(0, 50)}...`, line 530
ConclusionReasonLen(len) ==
    Len(ConclusionPrefix) + SubstringLen(len, OpeningLimit) + Len(Ellipsis)

\* the lengths text.substring(0, 60).replace(/\s+/g, ' ').trim() can have:
\* collapsing and trimming blanks only shorten the text
PreviewLens(len) == 0..SubstringLen(len, PreviewLimit)

\* preview + (segment.text.length > 60 ? '...' : ''), lines 500-504
PreviewReasonLen(len, preview) ==
    preview + (IF len > PreviewLimit THEN Len(Ellipsis) ELSE 0)

RsIdle ==
    /\ rsTextLen = 0
    /\ rsPath = "none"
    /\ rsReasonLen = 0
    /\ rsPc = "idle"

InitRsVars ==
    /\ rsTextLen \in 0..MaxTextLength
    /\ rsPath = "none"
    /\ rsReasonLen = 0
    /\ rsPc = "build"

RsPushed(path, len) ==
    /\ rsPath' = path
    /\ rsReasonLen' = len
    /\ rsPc' = "pushed"
    /\ UNCHANGED rsTextLen
    /\ UNCHANGED rsRest

\* an element of the JSON array, lines 417-422
RsJson ==
    /\ rsPc = "build"
    /\ RsPushed("json", JsonReasonLen(rsTextLen))

\* a timestamp:reason pair with a reason, lines 437-439
RsPipe ==
    /\ rsPc = "build"
    /\ rsTextLen > 0
    /\ RsPushed("pipe", Truncated(rsTextLen))

\* a pair whose reason is empty gives no moment, lines 437-440
RsPipeDropped ==
    /\ rsPc = "build"
    /\ rsTextLen = 0
    /\ rsPath' = "pipe"
    /\ rsPc' = "dropped"
    /\ UNCHANGED <<rsTextLen, rsReasonLen>>
    /\ UNCHANGED rsRest

\* the first segment, lines 475-481
RsOpening ==
    /\ rsPc = "build"
    /\ RsPushed("opening", OpeningReasonLen(rsTextLen))

\* a keyword segment or an evenly spaced segment, lines 499-505 and 516-521
RsPreview ==
    /\ rsPc = "build"
    /\ \E preview \in PreviewLens(rsTextLen) :
           RsPushed("preview", PreviewReasonLen(rsTextLen, preview))

\* the last segment, lines 526-532
RsConclusion ==
    /\ rsPc = "build"
    /\ RsPushed("conclusion", ConclusionReasonLen(rsTextLen))

NextRs == RsJson \/ RsPipe \/ RsPipeDropped \/ RsOpening \/ RsPreview
          \/ RsConclusion

----------------------------------------------------------------------------
(* The CLI action, src/src/index.ts 253-482: the order of the calls and what
   a failure of each does *)

\* most frames the extraction returns
MaxCliFrames == 2
\* most chunks of the transcript in the summary step
MaxCliChunks == 2

\* the files argument: a .vtt file, a .vtt and an .mp4 file, an .mp4 file,
\* or something the checks of lines 259-279 reject
CliFileSets == {"vtt", "vtt+mp4", "mp4", "rejected"}
CliOptionSet == [audioOnly : BOOLEAN, transcribeOnly : BOOLEAN,
                 analyzeFrames : BOOLEAN]

\* videoPath is set, lines 293-296 and 300
HasVideo(files) == files \in {"vtt+mp4", "mp4"}

\* options.analyzeFrames !== false && !options.transcribeOnly && videoPath
WantsFrames(files, options) ==
    options.analyzeFrames /\ ~options.transcribeOnly /\ HasVideo(files)

Call(op, ok) == [op |-> op, ok |-> ok]

\* a call whose failure is swallowed
AfterCallIgnoringFailure(ok, next) == next

\* where the action is after a call: the next statement when the call
\* returned, the top-level catch of lines 474-482 when it threw
AfterCall(ok, next) == IF ok THEN next ELSE "exit1"

\* a key-moment step whose failure is not caught by the inner try
AfterKeyMomentCallUncaught(ok, next) == AfterCall(ok, next)

\* where the action is after identifyKeyMoments or
\* extractFramesAtTimestamps, both inside the try of lines 332-344: the
\* next statement when the call returned, the catch of lines 345-355 with
\* the fixed-interval extraction when it threw
AfterKeyMomentCall(ok, next) == IF ok THEN next ELSE "fixed"

\* a summary step whose failure ends the run
AfterSummaryCallUncaught(ok, next) == AfterCall(ok, next)

\* where the action is after a step of summarizeTranscript, called inside
\* the try of lines 414-427: the next step when it returned; when it threw,
\* summarizeWithOllama rethrows (processor.ts 883-892), the catch of lines
\* 424-427 only reports, and the output is written
AfterSummaryCall(ok, next) == IF ok THEN next ELSE "write"

CliIdle ==
    /\ cliFiles = "none"
    /\ cliOptions = [audioOnly |-> FALSE, transcribeOnly |-> FALSE,
                     analyzeFrames |-> FALSE]
    /\ cliPc = "idle"
    /\ cliCalls = <<>>
    /\ cliFrameInfos = 0
    /\ cliNarrated = 0
    /\ cliSummaryInOutput = FALSE
    /\ cliOutputWritten = FALSE

InitCliVars ==
    /\ cliFiles \in CliFileSets
    /\ cliOptions \in CliOptionSet
    /\ cliPc = "files"
    /\ cliCalls = <<>>
    /\ cliFrameInfos = 0
    /\ cliNarrated = 0
    /\ cliSummaryInOutput = FALSE
    /\ cliOutputWritten = FALSE

\* a step that makes the call op, which returns (ok) or throws
CliCall(at, op, ok, next) ==
    /\ cliPc = at
    /\ cliCalls' = Append(cliCalls, Call(op, ok))
    /\ cliPc' = AfterCall(ok, next)

\* a step that makes the call op and goes on at the given place
CliStep(op, ok, goto) ==
    /\ cliCalls' = Append(cliCalls, Call(op, ok))
    /\ cliPc' = goto

\* the map calls made so far
CliMapCalls ==
    Cardinality({i \in 1..Len(cliCalls) : cliCalls[i].op = "mapChunk"})

\* lines 259-279: the files are told apart
CliSeparateFiles ==
    /\ cliPc = "files"
    /\ cliPc' = IF cliFiles = "rejected" THEN "exit1"
                ELSE IF cliFiles \in {"vtt", "vtt+mp4"} THEN "vtt" ELSE "audio"
    /\ UNCHANGED <<cliFiles, cliOptions, cliCalls, cliFrameInfos, cliNarrated,
                   cliSummaryInOutput, cliOutputWritten>>
    /\ UNCHANGED cliRest

\* parseVTT, line 289
CliParseVTT ==
    /\ \E ok \in BOOLEAN : CliCall("vtt", "parseVTT", ok, "frames")
    /\ UNCHANGED <<cliFiles, cliOptions, cliFrameInfos, cliNarrated,
                   cliSummaryInOutput, cliOutputWritten>>
    /\ UNCHANGED cliRest

\* extractAudio, lines 303-310; with --audio-only the action returns
CliExtractAudio ==
    /\ \E ok \in BOOLEAN :
           CliCall("audio", "extractAudio", ok,
                   IF cliOptions.audioOnly THEN "exit0" ELSE "transcribe")
    /\ UNCHANGED <<cliFiles, cliOptions, cliFrameInfos, cliNarrated,
                   cliSummaryInOutput, cliOutputWritten>>
    /\ UNCHANGED cliRest

\* transcribeAudio, line 314
CliTranscribeAudio ==
    /\ \E ok \in BOOLEAN : CliCall("transcribe", "transcribeAudio", ok, "frames")
    /\ UNCHANGED <<cliFiles, cliOptions, cliFrameInfos, cliNarrated,
                   cliSummaryInOutput, cliOutputWritten>>
    /\ UNCHANGED cliRest

\* the condition of line 325 is false: no frame is extracted
CliSkipFrames ==
    /\ cliPc = "frames"
    /\ ~WantsFrames(cliFiles, cliOptions)
    /\ cliPc' = "summary"
    /\ UNCHANGED <<cliFiles, cliOptions, cliCalls, cliFrameInfos, cliNarrated,
                   cliSummaryInOutput, cliOutputWritten>>
    /\ UNCHANGED cliRest

\* ffprobe, line 327, outside the inner try
CliProbe ==
    /\ WantsFrames(cliFiles, cliOptions)
    /\ \E ok \in BOOLEAN : CliCall("frames", "ffprobe", ok, "identify")
    /\ UNCHANGED <<cliFiles, cliOptions, cliFrameInfos, cliNarrated,
                   cliSummaryInOutput, cliOutputWritten>>
    /\ UNCHANGED cliRest

\* identifyKeyMoments, lines 333-340; a throw goes to the catch of line 345
CliIdentifyKeyMoments ==
    /\ cliPc = "identify"
    /\ \E ok \in BOOLEAN :
           /\ cliCalls' = Append(cliCalls, Call("identifyKeyMoments", ok))
           /\ cliPc' = AfterKeyMomentCall(ok, "keyframes")
    /\ UNCHANGED <<cliFiles, cliOptions, cliFrameInfos, cliNarrated,
                   cliSummaryInOutput, cliOutputWritten>>
    /\ UNCHANGED cliRest

\* extractFramesAtTimestamps, line 343
CliExtractFramesAtTimestamps ==
    /\ cliPc = "keyframes"
    /\ \E ok \in BOOLEAN :
           /\ cliCalls' = Append(cliCalls, Call("extractFramesAtTimestamps", ok))
           /\ cliPc' = AfterKeyMomentCall(ok, "narrate")
           /\ IF ok THEN cliFrameInfos' \in 0..MaxCliFrames
                    ELSE UNCHANGED cliFrameInfos
    /\ UNCHANGED <<cliFiles, cliOptions, cliNarrated, cliSummaryInOutput,
                   cliOutputWritten>>
    /\ UNCHANGED cliRest

\* extractFrames in the catch block, lines 345-355
CliExtractFrames ==
    /\ \E ok \in BOOLEAN : CliCall("fixed", "extractFrames", ok, "narrate")
    /\ IF cliPc' = "narrate"
       THEN cliFrameInfos' \in 0..MaxCliFrames
       ELSE UNCHANGED cliFrameInfos
    /\ UNCHANGED <<cliFiles, cliOptions, cliNarrated, cliSummaryInOutput,
                   cliOutputWritten>>
    /\ UNCHANGED cliRest

\* one iteration of the frame loop, lines 367-395: summarizeFrame returns
\* or throws, and the loop goes on either way
CliSummarizeFrame ==
    /\ cliPc = "narrate"
    /\ cliNarrated < cliFrameInfos
    /\ \E ok \in BOOLEAN : cliCalls' = Append(cliCalls, Call("summarizeFrame", ok))
    /\ cliNarrated' = cliNarrated + 1
    /\ UNCHANGED <<cliFiles, cliOptions, cliPc, cliFrameInfos,
                   cliSummaryInOutput, cliOutputWritten>>
    /\ UNCHANGED cliRest

\* the frame loop is over (or frameInfos is empty), lines 358 and 397
CliFramesDone ==
    /\ cliPc = "narrate"
    /\ cliNarrated = cliFrameInfos
    /\ cliPc' = "summary"
    /\ UNCHANGED <<cliFiles, cliOptions, cliCalls, cliFrameInfos, cliNarrated,
                   cliSummaryInOutput, cliOutputWritten>>
    /\ UNCHANGED cliRest

\* --transcribe-only: no summary, line 411
CliSkipSummary ==
    /\ cliPc = "summary"
    /\ cliOptions.transcribeOnly
    /\ cliPc' = "write"
    /\ UNCHANGED <<cliFiles, cliOptions, cliCalls, cliFrameInfos, cliNarrated,
                   cliSummaryInOutput, cliOutputWritten>>
    /\ UNCHANGED cliRest

\* summarizeTranscript is entered, lines 414-419: summarizeWithOllama
\* looks for the model and pulls it when missing (processor.ts 836-840)
CliCheckModel ==
    /\ cliPc = "summary"
    /\ ~cliOptions.transcribeOnly
    /\ \E ok \in BOOLEAN : CliStep("checkModel", ok, AfterSummaryCall(ok, "summarizing"))
    /\ UNCHANGED <<cliFiles, cliOptions, cliFrameInfos, cliNarrated,
                   cliSummaryInOutput, cliOutputWritten>>
    /\ UNCHANGED cliRest

\* one map call, processor.ts 866 and 876; the transcript decides how many
\* chunks there are
CliMapChunk ==
    /\ cliPc = "summarizing"
    /\ CliMapCalls < MaxCliChunks
    /\ \E ok \in BOOLEAN : CliStep("mapChunk", ok, AfterSummaryCall(ok, "summarizing"))
    /\ UNCHANGED <<cliFiles, cliOptions, cliFrameInfos, cliNarrated,
                   cliSummaryInOutput, cliOutputWritten>>
    /\ UNCHANGED cliRest

\* the reduce call, processor.ts 867 and 882; its answer is the summary,
\* appended to the output at line 423
CliReduceChunks ==
    /\ cliPc = "summarizing"
    /\ \E ok \in BOOLEAN :
           /\ CliStep("reduceChunks", ok, AfterSummaryCall(ok, "write"))
           /\ cliSummaryInOutput' = ok
    /\ UNCHANGED <<cliFiles, cliOptions, cliFrameInfos, cliNarrated,
                   cliOutputWritten>>
    /\ UNCHANGED cliRest

\* fs.writeFile(outputPath, finalOutput), lines 431-433
CliWriteOutput ==
    /\ \E ok \in BOOLEAN :
           /\ CliCall("write", "writeOutput", ok, "after")
           /\ cliOutputWritten' = ok
    /\ UNCHANGED <<cliFiles, cliOptions, cliFrameInfos, cliNarrated,
                   cliSummaryInOutput>>
    /\ UNCHANGED cliRest

\* what follows the output: timestamps file, kept audio and frames, cleanup
\* (lines 436-472); a throw there also reaches the top-level catch
CliAfterOutput ==
    /\ \E ok \in BOOLEAN : CliCall("after", "afterOutput", ok, "exit0")
    /\ UNCHANGED <<cliFiles, cliOptions, cliFrameInfos, cliNarrated,
                   cliSummaryInOutput, cliOutputWritten>>
    /\ UNCHANGED cliRest

NextCli ==
    \/ CliSeparateFiles \/ CliParseVTT \/ CliExtractAudio \/ CliTranscribeAudio
    \/ CliSkipFrames \/ CliProbe \/ CliIdentifyKeyMoments
    \/ CliExtractFramesAtTimestamps \/ CliExtractFrames \/ CliSummarizeFrame
    \/ CliFramesDone \/ CliSkipSummary
    \/ CliCheckModel \/ CliMapChunk \/ CliReduceChunks
    \/ CliWriteOutput \/ CliAfterOutput

----------------------------------------------------------------------------
(* Parsing of the AI response in identifyKeyMoments,
   src/src/lib/processor.ts 403-452 *)

\* most entries of a response
MaxEntries == 3

\* An entry of the response.  In the pipe form (text between '|' or line
\* breaks):
\*   "good"         5:reason          "colons"      1:30:reason
\*   "nocolon"      no ':' at all     "nonnumeric"  abc:reason
\*   "emptyreason"  5:
\* In the JSON form (an element of the array):
\*   "good"         {"timestamp": 5, "reason": "x"}
\*   "notimestamp"  {"reason": "x"}
\*   "nonnumeric"   {"timestamp": "abc", "reason": "x"}
\*   "emptyreason"  {"timestamp": 5, "reason": ""}
\*   "null"         null
\* timestamp is the number written first in the entry, in ticks.
PipeKinds == {"good", "colons", "nocolon", "nonnumeric", "emptyreason"}
JsonKinds == {"good", "notimestamp", "nonnumeric", "emptyreason", "null"}
EntryTicks == {0, 3}
PipeEntrySet == [kind : PipeKinds, timestamp : EntryTicks]
JsonEntrySet == [kind : JsonKinds, timestamp : EntryTicks]

Moment(t, reason) == [timestamp |-> t, nan |-> FALSE, reason |-> reason]
\* parseFloat gave NaN
MomentAtNaN(reason) == [timestamp |-> 0, nan |-> TRUE, reason |-> reason]

\* lines 427-441 for one pair: filter on ':', split at the first ':',
\* !isNaN(timestamp) && reason
ParsePair(e) ==
    IF e.kind \in {"good", "colons"} THEN <<Moment(e.timestamp, "ai")>>
    ELSE <<>>

\* lines 419-422 for one element that has properties: filter on
\* item.timestamp !== undefined, parseFloat, item.reason || 'Key moment'
ParseElement(e) ==
    IF e.kind = "notimestamp" THEN <<>>
    ELSE IF e.kind = "nonnumeric" THEN <<MomentAtNaN("ai")>>
    ELSE IF e.kind = "emptyreason" THEN <<Moment(e.timestamp, "Key moment")>>
    ELSE <<Moment(e.timestamp, "ai")>>

RECURSIVE ParsePairs(_)
ParsePairs(entries) ==
    IF entries = <<>> THEN <<>>
    ELSE ParsePair(Head(entries)) \o ParsePairs(Tail(entries))

RECURSIVE ParseElements(_)
ParseElements(entries) ==
    IF entries = <<>> THEN <<>>
    ELSE ParseElement(Head(entries)) \o ParseElements(Tail(entries))

\* reading item.timestamp of null throws a TypeError
Throws(entries) == \E i \in 1..Len(entries) : entries[i].kind = "null"

\* lines 412-452: keyMoments is assigned when the chain of the branch has
\* run to its end; the catch of line 450 leaves it empty
ParseResponse(form, entries) ==
    IF form = "pipe" THEN ParsePairs(entries)
    ELSE IF Throws(entries) THEN <<>>
    ELSE ParseElements(entries)

PrIdle ==
    /\ prForm = "none"
    /\ prEntries = <<>>
    /\ prKeyMoments = <<>>
    /\ prPc = "idle"

InitPrVars ==
    /\ \/ prForm = "pipe" /\ prEntries \in SeqsUpTo(PipeEntrySet, MaxEntries)
       \/ prForm = "json" /\ prEntries \in SeqsUpTo(JsonEntrySet, MaxEntries)
    /\ prKeyMoments = <<>>
    /\ prPc = "parse"

\* the else branch of line 424
PrParsePairs ==
    /\ prPc = "parse"
    /\ prForm = "pipe"
    /\ prKeyMoments' = ParseResponse(prForm, prEntries)
    /\ prPc' = "done"
    /\ UNCHANGED <<prForm, prEntries>>
    /\ UNCHANGED prRest

\* the branch of line 414
PrParseJson ==
    /\ prPc = "parse"
    /\ prForm = "json"
    /\ prKeyMoments' = ParseResponse(prForm, prEntries)
    /\ prPc' = "done"
    /\ UNCHANGED <<prForm, prEntries>>
    /\ UNCHANGED prRest

NextPr == PrParsePairs \/ PrParseJson

\*--- more components ---

MoreIdle == CtxIdle /\ TrIdle /\ FrIdle /\ SnapIdle /\ RsIdle /\ CliIdle /\ PrIdle

----------------------------------------------------------------------------
(* Specifications *)

InitKM   == InitKMVars /\ NarrIdle /\ SumIdle /\ MoreIdle
InitNarr == KMIdle /\ InitNarrVars /\ SumIdle /\ MoreIdle
InitSum  == KMIdle /\ NarrIdle /\ InitSumVars /\ MoreIdle
InitCtx == KMIdle /\ NarrIdle /\ SumIdle /\ InitCtxVars /\ TrIdle /\ FrIdle /\ SnapIdle /\ RsIdle /\ CliIdle /\ PrIdle
InitTr == KMIdle /\ NarrIdle /\ SumIdle /\ InitTrVars /\ CtxIdle /\ FrIdle /\ SnapIdle /\ RsIdle /\ CliIdle /\ PrIdle
InitFr == KMIdle /\ NarrIdle /\ SumIdle /\ InitFrVars /\ CtxIdle /\ TrIdle /\ SnapIdle /\ RsIdle /\ CliIdle /\ PrIdle
InitSnap == KMIdle /\ NarrIdle /\ SumIdle /\ InitSnapVars /\ CtxIdle /\ TrIdle /\ FrIdle /\ RsIdle /\ CliIdle /\ PrIdle
InitRs == KMIdle /\ NarrIdle /\ SumIdle /\ InitRsVars /\ CtxIdle /\ TrIdle /\ FrIdle /\ SnapIdle /\ CliIdle /\ PrIdle
InitCli == KMIdle /\ NarrIdle /\ SumIdle /\ InitCliVars /\ CtxIdle /\ TrIdle /\ FrIdle /\ SnapIdle /\ RsIdle /\ PrIdle
InitPr == KMIdle /\ NarrIdle /\ SumIdle /\ InitPrVars /\ CtxIdle /\ TrIdle /\ FrIdle /\ SnapIdle /\ RsIdle /\ CliIdle

SpecKM   == InitKM /\ [][NextKM]_vars
SpecNarr == InitNarr /\ [][NextNarr]_vars
SpecSum  == InitSum /\ [][NextSum]_vars
SpecCtx == InitCtx /\ [][NextCtx]_vars
SpecTr == InitTr /\ [][NextTr]_vars
SpecFr == InitFr /\ [][NextFr]_vars
SpecSnap == InitSnap /\ [][NextSnap]_vars
SpecRs == InitRs /\ [][NextRs]_vars
SpecCli == InitCli /\ [][NextCli]_vars
SpecPr == InitPr /\ [][NextPr]_vars

----------------------------------------------------------------------------
(* Properties of identifyKeyMoments (SpecKM) *)

SegmentStarts == {segments[i].start : i \in 1..Len(segments)}

IsSortedByTimestamp(moments) ==
    \A i, j \in 1..Len(moments) : i < j => moments[i].timestamp <= moments[j].timestamp

\* C1: whenever identifyKeyMoments returns, on the AI path or the fallback
\* path, every returned timestamp is the start of some input segment.
C1_TimestampIsSegmentStart ==
    kmPc = "done" =>
        \A i \in 1..Len(kmResult) : kmResult[i].timestamp \in SegmentStarts

\* a return on the AI path with a moment that was snapped to a start
C1_Witness ==
    /\ kmPc = "done"
    /\ ~usedFallback
    /\ "snapped" \in kmSeen
    /\ Len(kmResult) >= 1

\* C2: the returned list never holds two moments with the same timestamp,
\* whatever the AI named and whatever the segments, on both paths.
C2_NoDuplicateTimestamps ==
    kmPc = "done" =>
        \A i, j \in 1..Len(kmResult) :
            i # j => kmResult[i].timestamp # kmResult[j].timestamp

\* a return on the AI path after a candidate hit an already claimed start
C2_Witness ==
    /\ kmPc = "done"
    /\ ~usedFallback
    /\ "claimed" \in kmSeen
    /\ Len(kmResult) >= 2

\* C3: the returned list is sorted by ascending timestamp and has at most
\* maxFrames entries, for every maxFrames >= 0.
C3_SortedAndTruncated ==
    kmPc = "done" =>
        /\ IsSortedByTimestamp(kmResult)
        /\ Len(kmResult) <= maxFrames

\* a return where more than maxFrames moments were accepted, out of order
C3_Witness ==
    /\ kmPc = "done"
    /\ ~usedFallback
    /\ maxFrames >= 1
    /\ Len(validKeyMoments) > maxFrames
    /\ ~IsSortedByTimestamp(validKeyMoments)

\* C4: the heuristic fallback is used in both trigger cases: when too few
\* candidates are accepted, and when the AI call itself fails; in both the
\* selector returns the heuristic key moments.
C4_FallbackOnBothTriggers ==
    (kmPc = "threw" \/ (kmPc = "done" /\ usedFallback)) =>
        /\ kmPc = "done"
        /\ kmResult = FinalMoments(FallbackMoments(segments, maxFrames), maxFrames)

\* C5 as stated: whenever the fallback runs, with at least one segment and
\* maxFrames >= 1, the result has at least min(2, segmentCount) moments and
\* contains the first and the last segment's start.
C5_FallbackAnchorsFromOneFrame ==
    (kmPc = "done" /\ usedFallback /\ Len(segments) >= 1 /\ maxFrames >= 1) =>
        /\ Len(kmResult) >= Min(2, Len(segments))
        /\ segments[1].start \in Timestamps(kmResult)
        /\ segments[Len(segments)].start \in Timestamps(kmResult)

\* C5 amended: whenever the fallback runs, with at least one segment and
\* maxFrames >= 2, the result contains the first and the last segment's
\* start, hence at least two moments when these two starts differ.
C5_FallbackAnchorsFromTwoFrames ==
    (kmPc = "done" /\ usedFallback /\ Len(segments) >= 1 /\ maxFrames >= 2) =>
        /\ segments[1].start \in Timestamps(kmResult)
        /\ segments[Len(segments)].start \in Timestamps(kmResult)
        /\ Len(kmResult) >= Cardinality({segments[1].start,
                                         segments[Len(segments)].start})

\* a fallback return over three segments whose first and last starts differ,
\* with room for exactly the two anchors
C5_Witness ==
    /\ kmPc = "done"
    /\ usedFallback
    /\ maxFrames = 2
    /\ Len(segments) = 3
    /\ segments[1].start # segments[3].start
    /\ Len(kmResult) = 2

----------------------------------------------------------------------------
(* Properties of the frame analysis loop (SpecNarr) *)

\* C6: if the vision call for frame k fails in any way, HTTP 400 included,
\* a placeholder narration is recorded for frame k and the prompt of frame
\* k+1 carries no previous-frame description.
C6_FailureResetsContext ==
    \A k \in 1..Len(outcomes) :
        outcomes[k] \in {"http400", "throw"} =>
            /\ frameSummaries[k].kind \in {"failed", "unsupported"}
            /\ (k + 1 <= Len(promptContext) => promptContext[k + 1] = NoContext)

\* C7: the calls are issued one at a time in frame order: at most one call
\* is in flight, it is the call of the latest frame started, and every
\* earlier frame has completed, in order.
C7_OneVisionCallAtATime ==
    /\ Cardinality(inFlight) <= 1
    /\ \A k \in inFlight : k = nextFrame - 1 /\ Len(outcomes) = k - 1
    /\ \A i \in 1..Len(frameSummaries) : frameSummaries[i].frame = i

\* the call of frame 2 is in flight after the call of frame 1 completed
C7_Witness ==
    /\ inFlight = {2}
    /\ Len(outcomes) = 1
    /\ nFrames >= 3

----------------------------------------------------------------------------
(* Properties of summarizeWithOllama (SpecSum) *)

\* the chunking step has run
Chunked == sumPc \in {"map", "mapping", "reduce", "reducing", "done"}
           \/ (sumPc = "failed" /\ calls # <<>>)

RECURSIVE Flatten(_)
Flatten(seqs) == IF seqs = <<>> THEN <<>> ELSE Head(seqs) \o Flatten(Tail(seqs))

StripBlanks(text) == SelectSeq(text, LAMBDA c : ~IsBlank(c))

\* the j-th smallest element of a set of numbers
Nth(S, j) == CHOOSE x \in S : Cardinality({y \in S : y < x}) = j - 1

\* C8: when all calls succeed, a transcript of N >= 1 chunks performs exactly
\* N map calls, one per chunk in chunk order (each on its chunk when N > 1),
\* then exactly one reduce call, started after the last map call completed
\* and given the N extractions in chunk order.
C8_MapCallsThenOneReduce ==
    (sumPc = "done" /\ Len(chunks) >= 1) =>
        LET n == Len(chunks)
        IN  /\ Len(calls) = 2 * n + 2
            /\ \A i \in 1..n :
                 /\ calls[2 * i - 1].op = "map" /\ calls[2 * i - 1].ev = "start"
                 /\ calls[2 * i - 1].chunkNumber = i
                 /\ calls[2 * i].op = "map" /\ calls[2 * i].ev = "end"
                 /\ calls[2 * i].chunkNumber = i
                 /\ (n > 1 => calls[2 * i - 1].text = chunks[i])
            /\ calls[2 * n + 1].op = "reduce" /\ calls[2 * n + 1].ev = "start"
            /\ Len(calls[2 * n + 1].extractions) = n
            /\ \A i \in 1..n :
                 /\ calls[2 * n + 1].extractions[i].chunkNumber = i
                 /\ (n > 1 => calls[2 * n + 1].extractions[i].of = chunks[i])
            /\ calls[2 * n + 2].op = "reduce" /\ calls[2 * n + 2].ev = "end"

\* a successful summary of a transcript of several chunks
C8_Witness ==
    /\ sumPc = "done"
    /\ Len(chunks) >= 2

\* C9: the chunks, concatenated in order, reproduce the transcript up to
\* whitespace: no character other than whitespace is lost.
C9_ChunksReproduceText ==
    Chunked => StripBlanks(Flatten(chunks)) = StripBlanks(transcript)

\* C10: every chunk is the (trimmed) concatenation of one or more whole
\* consecutive sentences, the chunks taking the sentences in order; a chunk
\* longer than the maximum is exactly one sentence, and a chunk of two or
\* more sentences is at most the maximum long.
C10_ChunksAreWholeSentences ==
    (Chunked /\ chunks # <<>>) =>
        LET s == sentences(transcript)
            n == Len(s)
            k == Len(chunks)
        IN  \E cuts \in SUBSET (1..n) :
                /\ n \in cuts
                /\ Cardinality(cuts) = k
                /\ \A j \in 1..k :
                     LET lo == IF j = 1 THEN 1 ELSE Nth(cuts, j - 1) + 1
                         hi == Nth(cuts, j)
                     IN  /\ chunks[j] = Trim(Flatten(SubSeq(s, lo, hi)))
                         /\ (Len(chunks[j]) > MAX_CHUNK_SIZE => lo = hi)
                         /\ (hi > lo => Len(chunks[j]) <= MAX_CHUNK_SIZE)

\* a chunk of a single oversized sentence next to a chunk of two sentences
C10_Witness ==
    /\ Chunked
    /\ Len(chunks) = 2
    /\ Len(sentences(transcript)) = 3
    /\ \E j \in 1..Len(chunks) : Len(chunks[j]) > MAX_CHUNK_SIZE

----------------------------------------------------------------------------
(* Properties of getRelevantTranscriptForFrame (SpecCtx) *)

\* the segments whose interval meets the window [t - c, t + c]
CtxMatching ==
    {i \in 1..Len(ctxSegments) :
        /\ ctxSegments[i].start <= frameTimestamp + contextSeconds
        /\ ctxSegments[i].end >= frameTimestamp - contextSeconds}

\* the texts of the first j matching segments, a blank between neighbours
RECURSIVE CtxJoinedUpTo(_)
CtxJoinedUpTo(j) ==
    IF j = 0 THEN <<>>
    ELSE IF j = 1 THEN ctxSegments[Nth(CtxMatching, 1)].text
    ELSE CtxJoinedUpTo(j - 1) \o <<" ">> \o ctxSegments[Nth(CtxMatching, j)].text

\* C11: the result is the space-joined texts, in segment order, of exactly
\* the segments with start <= t + c and end >= t - c, and it is the
\* no-transcript marker if and only if no segment satisfies that condition.
C11_WindowTextOrMarker ==
    ctxPc = "done" =>
        /\ (ctxResult = NoTranscript) <=> (CtxMatching = {})
        /\ CtxMatching # {} => ctxResult = CtxJoinedUpTo(Cardinality(CtxMatching))

\* two segments touch the window at its two end points and a third is
\* outside; the result joins the two
C11_Witness ==
    /\ ctxPc = "done"
    /\ Len(ctxSegments) = 3
    /\ Cardinality(CtxMatching) = 2
    /\ \E i \in CtxMatching : ctxSegments[i].end = frameTimestamp - contextSeconds
    /\ \E i \in CtxMatching : ctxSegments[i].start = frameTimestamp + contextSeconds
    /\ ctxResult # NoTranscript

----------------------------------------------------------------------------
(* Properties of parseVTT and transcribeAudio (SpecTr) *)

\* where the text of segment i starts in the full text, counted from 0
RECURSIVE TextOffset(_)
TextOffset(i) ==
    IF i = 1 THEN 0 ELSE TextOffset(i - 1) + Len(trSegments[i - 1].text) + 1

\* C12: for every transcript produced by parseVTT or transcribeAudio,
\* fullText is the segment texts in segment order with exactly one space
\* between neighbours.
C12_FullTextIsSpaceJoined ==
    trPc = "done" =>
        LET n == Len(trSegments)
        IN  /\ n = 0 => fullText = <<>>
            /\ n > 0 => Len(fullText) = TextOffset(n) + Len(trSegments[n].text)
            /\ \A i \in 1..n :
                   SubSeq(fullText, TextOffset(i) + 1,
                          TextOffset(i) + Len(trSegments[i].text))
                       = trSegments[i].text
            /\ \A i \in 1..(n - 1) :
                   fullText[TextOffset(i) + Len(trSegments[i].text) + 1] = " "

\* whisper returned three segments, the middle one blank before trimming
C12_Witness ==
    /\ trPc = "done"
    /\ trSource = "whisper"
    /\ Len(trSegments) = 3
    /\ trSegments[1].text = <<"a">>
    /\ trSegments[2].text = <<>>
    /\ trSegments[3].text = <<"b">>
    /\ fullText = <<"a", " ", " ", "b">>

VttBlocks == SplitBlocks(vttContent)

\* the first line of block b that matches the timestamp pattern, 0 when
\* there is none
FirstMatchingLine(b) ==
    LET lines == BlockLines(VttBlocks[b])
        hits == {i \in 1..Len(lines) : MatchesTimestamps(lines[i])}
    IN  IF hits = {} THEN 0 ELSE Nth(hits, 1)

\* the first line of block b that contains '-->', 0 when there is none
FirstArrowLine(b) ==
    LET lines == BlockLines(VttBlocks[b])
        hits == {i \in 1..Len(lines) : HasArrow(lines[i])}
    IN  IF hits = {} THEN 0 ELSE Nth(hits, 1)

\* block b is a cue block whose line i carries the cue times and is
\* followed by text
YieldsCue(b, i) ==
    LET lines == BlockLines(VttBlocks[b])
    IN  /\ ~StartsWithHeaderOrNote(VttBlocks[b])
        /\ i # 0
        /\ MatchesTimestamps(lines[i])
        /\ \E j \in (i + 1)..Len(lines) : ~IsBlankLine(lines[j])

\* the segments are, in block order, one per block that yields a cue, where
\* pick[b] is the timestamp line of block b
OneSegmentPerCueBlock(pick) ==
    LET yielding == {b \in 1..Len(VttBlocks) : YieldsCue(b, pick[b])}
    IN  /\ Len(trSegments) = Cardinality(yielding)
        /\ \A j \in 1..Len(trSegments) :
               LET b == Nth(yielding, j)
                   lines == BlockLines(VttBlocks[b])
               IN  /\ trSegments[j].start = parseVTTTimestamp(lines[pick[b]].from)
                   /\ trSegments[j].end = parseVTTTimestamp(lines[pick[b]].to)
                   /\ trSegments[j].text[1] = lines[pick[b] + 1].raw

\* C13 as stated: a block with no line matching the timestamp pattern, or
\* with no text after that line, contributes no segment, and every other
\* block that is neither header nor comment contributes exactly one segment,
\* in block order.
C13_OneSegmentPerMatchingBlock ==
    (trSource = "vtt" /\ trPc = "done") =>
        OneSegmentPerCueBlock([b \in 1..Len(VttBlocks) |-> FirstMatchingLine(b)])

\* C13, amended: the timestamp line of a block is its first line containing
\* '-->'.  A block without such a line, or whose first such line does not
\* match the timestamp pattern, or with no text after it, contributes no
\* segment; every other block that is neither header nor comment contributes
\* exactly one segment, in block order, whatever the blocks around it.
C13_OneSegmentPerArrowBlock ==
    (trSource = "vtt" /\ trPc = "done") =>
        OneSegmentPerCueBlock([b \in 1..Len(VttBlocks) |-> FirstArrowLine(b)])

\* a block whose '-->' line is not a timestamp line, then a well-formed cue:
\* the transcript has the one segment of the second block
C13_Witness ==
    /\ trSource = "vtt" /\ trPc = "done"
    /\ Len(VttBlocks) = 2
    /\ FirstArrowLine(1) # 0
    /\ FirstMatchingLine(1) = 0
    /\ YieldsCue(2, FirstArrowLine(2))
    /\ Len(trSegments) = 1

\* C14: the segments of a transcript produced by parseVTT are ordered by
\* non-decreasing start, whatever the order of the cue blocks in the file.
C14_SegmentsInChronologicalOrder ==
    (trSource = "vtt" /\ trPc = "done") =>
        \A i, j \in 1..Len(trSegments) :
            i < j => trSegments[i].start <= trSegments[j].start

----------------------------------------------------------------------------
(* Properties of extractFramesAtTimestamps (SpecFr) *)

\* C15: every FrameInfo returned by extractFramesAtTimestamps has its
\* timestamp in [0, videoDuration): a frame is extracted only for key moments
\* strictly before the end of the video (identifyKeyMoments itself may
\* return moments at or beyond it, see the witness).
C15_FramesBeforeVideoEnd ==
    frPc = "done" =>
        \A k \in 1..Len(frameInfos) :
            /\ ~videoDuration.nan
            /\ 0 <= frameInfos[k].timestamp
            /\ frameInfos[k].timestamp < videoDuration.value

\* identifyKeyMoments returned a moment exactly at the end of the video,
\* which was skipped, and a frame of an earlier moment was returned
C15_Witness ==
    /\ frPc = "done"
    /\ ~videoDuration.nan
    /\ \E k \in 1..Len(keyMoments) : keyMoments[k].timestamp = videoDuration.value
    /\ Len(frameInfos) >= 1

----------------------------------------------------------------------------
(* Error handling of the external calls (SpecSum, SpecNarr) *)

\* a map call was issued for chunk i
MapCallIssued(i) ==
    \E j \in 1..Len(calls) :
        calls[j].op = "map" /\ calls[j].ev = "start" /\ calls[j].chunkNumber = i

\* C16: a failure in one external call does not abort the other independent
\* calls on its branch: when summarizeWithOllama is over, also by a failed
\* map call, a map call was issued for every chunk; when the frame loop is
\* over, a vision call was made for every frame.
C16_FailureDoesNotAbortOtherCalls ==
    /\ (sumPc \in {"done", "failed"} /\ Chunked) =>
           \A i \in 1..Len(chunks) : MapCallIssued(i)
    /\ narrPc = "done" => Len(outcomes) = nFrames

\* C19: every entry of the narration list, of a frame whose vision call
\* succeeded or failed, is paired with the transcript excerpt of the frame.
C19_EveryEntryHasTranscriptContext ==
    \A i \in 1..Len(frameSummaries) : frameSummaries[i].transcript

\* C20: after a successful vision call for frame k, the context in the
\* prompt of frame k+1 is never the description of a frame earlier than k,
\* and it is frame k's own description when the model returned text for
\* frame k, on one line or on several.
C20_ContextIsPreviousFrameOnly ==
    \A k \in 1..Len(outcomes) :
        (outcomes[k] \in ContentKinds /\ k + 1 <= Len(promptContext)) =>
            /\ promptContext[k + 1].frame \notin 1..(k - 1)
            /\ outcomes[k] \in {"line", "multi"} =>
                   promptContext[k + 1] = [kind |-> "description", frame |-> k]

----------------------------------------------------------------------------
(* Properties of the validation step (SpecSnap) *)

\* the segment starts within one second of the candidate
SnapNear ==
    {snapSegments[i].start : i \in 1..Len(snapSegments)}
        \cap {t \in StartTicks :
                  ~snapMoment.nan /\ Abs(t - snapMoment.timestamp) < OneSecond}

\* those of them at the least distance from the candidate
SnapClosest ==
    {t \in SnapNear :
        \A u \in SnapNear :
            Abs(t - snapMoment.timestamp) <= Abs(u - snapMoment.timestamp)}

\* C17: a candidate within one second of one or more segment starts is
\* snapped to the closest of those starts when that start is unclaimed; a
\* candidate with no segment start within one second (and so no exact
\* match) is discarded.
C17_SnappedToClosestStart ==
    snapPc = "done" =>
        /\ (SnapNear # {} /\ SnapClosest \cap Timestamps(snapValid) = {}) =>
               /\ Len(snapAfter) = Len(snapValid) + 1
               /\ snapAfter[Len(snapAfter)].timestamp \in SnapClosest
        /\ SnapNear = {} => snapAfter = snapValid

----------------------------------------------------------------------------
(* Properties of the reasons (SpecRs) *)

\* C18: every key moment has a reason of at most 100 characters, whether it
\* comes from the pipe format, from a JSON array, or from the fallback
\* (opening, keyword or even-stride preview, conclusion).
C18_ReasonAtMostHundredChars ==
    rsPc = "pushed" => rsReasonLen <= 100

\* the AI named a reason longer than the limit and the moment carries its
\* first hundred characters
C18_Witness ==
    /\ rsPc = "pushed"
    /\ rsPath \in {"json", "pipe"}
    /\ rsTextLen > 100
    /\ rsReasonLen = 100

----------------------------------------------------------------------------
(* Properties of the CLI action (SpecCli) *)

\* some call of one of the operations ops was made and failed
CliFailed(ops) ==
    \E i \in 1..Len(cliCalls) : cliCalls[i].op \in ops /\ ~cliCalls[i].ok

\* how many calls of the operation op were made
CliCount(op) == Cardinality({i \in 1..Len(cliCalls) : cliCalls[i].op = op})

\* C21: if audio extraction, transcription or VTT reading fails, the run
\* ends in the failure state (exit code 1) with no key-moment, vision or
\* summary (map, reduce) call made and no output file written.
C21_InputFailureEndsRun ==
    CliFailed({"extractAudio", "transcribeAudio", "parseVTT"}) =>
        /\ cliPc = "exit1"
        /\ ~cliOutputWritten
        /\ \A i \in 1..Len(cliCalls) :
               cliCalls[i].op \in {"extractAudio", "transcribeAudio", "parseVTT"}

\* the audio was extracted and its transcription failed
C21_Witness ==
    /\ cliCalls = <<Call("extractAudio", TRUE), Call("transcribeAudio", FALSE)>>
    /\ cliPc = "exit1"

----------------------------------------------------------------------------
(* More properties of the frame analysis loop (SpecNarr) *)

\* C22: when the server rejects the image of a vision request with HTTP
\* 400, the request is retried as text-only, so the frame's entry is a
\* narration and neither a placeholder nor a failure.
C22_RejectedImageRetriedAsText ==
    \A k \in 1..Len(outcomes) :
        outcomes[k] = "http400" => frameSummaries[k].kind = "narration"

\* C26: when the loop has finished, the narration list has one entry per
\* input frame, in frame order, whatever calls failed: entry i belongs to
\* frame i and is the '[Analysis failed]' placeholder when the call of
\* frame i threw and what summarizeFrame returned otherwise; the call of
\* the last frame has been made.
C26_OneEntryPerFrameInOrder ==
    narrPc = "done" =>
        /\ Len(frameSummaries) = nFrames
        /\ Len(outcomes) = nFrames
        /\ nextFrame = nFrames + 1
        /\ \A i \in 1..nFrames :
              /\ frameSummaries[i].frame = i
              /\ frameSummaries[i].kind =
                    IF outcomes[i] = "throw" THEN "failed"
                    ELSE summarizeFrame(i, outcomes[i]).kind

\* three frames: the first and the last call threw, the second returned
C26_Witness ==
    /\ narrPc = "done"
    /\ nFrames = 3
    /\ outcomes = <<"throw", "line", "throw">>
    /\ Len(frameSummaries) = 3

----------------------------------------------------------------------------
(* Properties of the response parsing (SpecPr) *)

\* the well-formed entries of the response, in order
WellFormedEntries == SelectSeq(prEntries, LAMBDA e : e.kind \in {"good", "colons"})

\* C23: in either form, a malformed entry (no ':', non-numeric timestamp,
\* empty reason, JSON element without a timestamp) causes only that entry
\* to be dropped: the candidates are the well-formed entries of the
\* response, in order, each with the number before its first ':'.
C23_OnlyMalformedEntriesDropped ==
    prPc = "done" =>
        /\ Len(prKeyMoments) = Len(WellFormedEntries)
        /\ \A i \in 1..Len(prKeyMoments) :
               /\ ~prKeyMoments[i].nan
               /\ prKeyMoments[i].timestamp = WellFormedEntries[i].timestamp

----------------------------------------------------------------------------
(* More properties of identifyKeyMoments (SpecKM) *)

\* C24: the fallback is independent of the AI response: whenever it runs,
\* the moments accepted from the AI are discarded, and the list returned is
\* the one returned for the same segments and maxFrames when the AI names no
\* candidate at all (timestamps and reasons).
C24_FallbackIgnoresAIResponse ==
    (kmPc = "done" /\ usedFallback) =>
        kmResult = identifyKeyMoments(segments, maxFrames, <<>>)

\* the fallback ran although a candidate of the AI had been accepted
C24_Witness ==
    /\ kmPc = "done" /\ usedFallback
    /\ kmSeen \cap {"snapped", "exact"} # {}
    /\ Len(kmResult) >= 2

\* C25: for maxFrames >= 2 the fallback accumulates at most maxFrames
\* moments, so the final slice(0, maxFrames) removes none of them.
C25_FallbackFitsMaxFrames ==
    (kmPc = "done" /\ usedFallback /\ maxFrames >= 2) =>
        /\ Len(validKeyMoments) <= maxFrames
        /\ Len(kmResult) = Len(validKeyMoments)
        /\ Timestamps(kmResult) = Timestamps(validKeyMoments)

\* three segments with different starts and maxFrames = 2: the strides stop
\* at one entry and the last-segment anchor takes the second slot
C25_Witness ==
    /\ kmPc = "done" /\ usedFallback
    /\ maxFrames = 2
    /\ Cardinality(SegmentStarts) = 3
    /\ Len(validKeyMoments) = 2
    /\ Len(kmResult) = 2

----------------------------------------------------------------------------
(* More properties of extractFramesAtTimestamps (SpecFr) *)

\* C27: in the sequence returned by extractFramesAtTimestamps, which the
\* CLI hands to the narration loop and numbers index + 1 under
\* --save-timestamps, every frame's frameNumber is its 1-based position,
\* also when the extraction of some frame failed and was skipped.
C27_FrameNumberIsPosition ==
    frPc = "done" =>
        \A k \in 1..Len(frameInfos) : frameInfos[k].frameNumber = k

----------------------------------------------------------------------------
(* More properties of summarizeWithOllama (SpecSum) *)

\* the empty text and the texts of blanks only
BlankOnly(text) == \A i \in 1..Len(text) : IsBlank(text[i])

\* the indices of the events of calls with the given operation and event
CallIndices(op, ev) ==
    {j \in 1..Len(calls) : calls[j].op = op /\ calls[j].ev = ev}

\* C28: an empty or whitespace-only transcript gives zero chunks, no map
\* call and still one reduce call, made with an empty list of extractions;
\* a map call is given the whole untrimmed transcript exactly when there is
\* one chunk (the single-chunk shortcut), and its own chunk otherwise.
C28_BlankTranscriptAndSingleChunk ==
    /\ (Chunked /\ BlankOnly(transcript)) =>
          /\ chunks = <<>>
          /\ \A j \in 1..Len(calls) : calls[j].op = "reduce"
          /\ \A j \in CallIndices("reduce", "start") : calls[j].extractions = <<>>
          /\ sumPc = "done" => Cardinality(CallIndices("reduce", "start")) = 1
    /\ \A j \in CallIndices("map", "start") :
          /\ Len(chunks) = 1 =>
                /\ calls[j].text = transcript
                /\ calls[j].chunkNumber = 1
                /\ calls[j].totalChunks = 1
          /\ Len(chunks) # 1 => calls[j].text = chunks[calls[j].chunkNumber]

\* a transcript of two blanks was summarized: no chunk, no map call, and
\* the reduce call was made and answered
C28_Witness ==
    /\ sumPc = "done"
    /\ transcript = <<" ", " ">>
    /\ chunks = <<>>
    /\ Len(calls) = 2
    /\ calls[1].op = "reduce"

----------------------------------------------------------------------------
(* More properties of the CLI action (SpecCli) *)

\* the calls of the key-moment selection, inside the try of lines 332-344
KeyMomentOps == {"identifyKeyMoments", "extractFramesAtTimestamps"}

\* the calls summarizeTranscript is made of
SummaryOps == {"checkModel", "mapChunk", "reduceChunks"}

\* the places of the action after the frames have been extracted
AfterExtraction == {"narrate", "summary", "summarizing", "write", "after",
                    "exit0", "exit1"}

\* C29: when identifyKeyMoments or extractFramesAtTimestamps throws, the
\* fixed-interval extraction is the next call and is made once; when it
\* returns the run goes on to the frame narration with its frames, and when
\* it throws the run ends with exit code 1, nothing further being called
\* and no output written.
C29_FixedIntervalFallbackOnce ==
    /\ CliCount("extractFrames") <= 1
    /\ \A j \in 1..Len(cliCalls) :
          /\ (cliCalls[j].op \in KeyMomentOps /\ ~cliCalls[j].ok) =>
                IF j = Len(cliCalls) THEN cliPc = "fixed"
                ELSE cliCalls[j + 1].op = "extractFrames"
          /\ cliCalls[j].op = "extractFrames" =>
                /\ j > 1
                /\ cliCalls[j - 1].op \in KeyMomentOps /\ ~cliCalls[j - 1].ok
                /\ IF cliCalls[j].ok
                   THEN /\ cliPc \in AfterExtraction
                        /\ j = Len(cliCalls) =>
                              \/ cliPc = "narrate"
                              \/ cliPc = "summary" /\ cliFrameInfos = 0
                        /\ j < Len(cliCalls) =>
                              cliCalls[j + 1].op \in
                                  {"summarizeFrame", "checkModel"}
                        /\ CliCount("summarizeFrame") <= cliFrameInfos
                   ELSE /\ j = Len(cliCalls)
                        /\ cliPc = "exit1"
                        /\ ~cliOutputWritten

\* the key moments were identified, the extraction of their frames threw,
\* the fixed-interval extraction returned two frames, both were narrated
\* and the run ended normally
C29_Witness ==
    /\ CliFailed({"extractFramesAtTimestamps"})
    /\ CliCount("extractFrames") = 1
    /\ cliFrameInfos = 2
    /\ CliCount("summarizeFrame") = 2
    /\ cliPc = "exit0"

\* C30: a failed step of the summary (model pull, a map call, the reduce
\* call) is not retried and does not end the run: no summary call follows
\* it, the next call writes the output, which has no summary section, and
\* the run ends with exit code 1 only when writing the output or a step
\* after it failed.
C30_SummaryFailureNotFatal ==
    \A j \in 1..Len(cliCalls) :
        (cliCalls[j].op \in SummaryOps /\ ~cliCalls[j].ok) =>
            /\ \A k \in (j + 1)..Len(cliCalls) : cliCalls[k].op \notin SummaryOps
            /\ ~cliSummaryInOutput
            /\ IF j = Len(cliCalls) THEN cliPc = "write"
               ELSE /\ cliCalls[j + 1].op = "writeOutput"
                    /\ cliCalls[j + 1].ok => cliOutputWritten
            /\ cliPc = "exit1" => CliFailed({"writeOutput", "afterOutput"})

\* the first map call returned, the second threw, the output was written
\* without a summary and the run ended normally
C30_Witness ==
    /\ CliCount("mapChunk") = 2
    /\ CliFailed({"mapChunk"})
    /\ ~CliFailed({"checkModel"})
    /\ CliCount("reduceChunks") = 0
    /\ cliOutputWritten
    /\ ~cliSummaryInOutput
    /\ cliPc = "exit0"

============================================================================
